---- MODULE Spec2Model ----
(***************************************************************************)
(* Colorize (python/thunder/viz/colorize.py): turning numerical arrays     *)
(* into RGB arrays.  The model keeps numpy's arrays (shape + elements),    *)
(* the objects' storage (which array a name refers to), the Colorize       *)
(* object's fields, and the statements of Colorize.transform in order.     *)
(* Floating point numbers are modelled by exact rationals <<n, d>>.        *)
(***************************************************************************)
EXTENDS Integers, Sequences, FiniteSets, TLC

(***************************************************************************)
(* Rationals: <<n, d>> with d > 0 and gcd(n, d) = 1.                       *)
(***************************************************************************)
Abs(x) == IF x < 0 THEN -x ELSE x

RECURSIVE GCD(_, _)
GCD(a, b) == IF b = 0 THEN a ELSE GCD(b, a % b)

Rat(n, d) ==
    LET g == GCD(Abs(n), Abs(d))
        s == IF d < 0 THEN -1 ELSE 1
    IN  <<(s * n) \div g, (s * d) \div g>>

R(n) == <<n, 1>>
RAdd(p, q) == Rat(p[1] * q[2] + q[1] * p[2], p[2] * q[2])
RSub(p, q) == Rat(p[1] * q[2] - q[1] * p[2], p[2] * q[2])
RMul(p, q) == Rat(p[1] * q[1], p[2] * q[2])
RDiv(p, q) == Rat(p[1] * q[2], p[2] * q[1])
RNeg(p) == <<-p[1], p[2]>>
RLe(p, q) == p[1] * q[2] <= q[1] * p[2]
RLt(p, q) == p[1] * q[2] < q[1] * p[2]
RMax(p, q) == IF RLe(p, q) THEN q ELSE p
RMin(p, q) == IF RLe(p, q) THEN p ELSE q
\* floor, as an integer
RFloor(p) == p[1] \div p[2]
\* astype(int): truncation toward zero
RTrunc(p) == IF p[1] >= 0 THEN p[1] \div p[2] ELSE -((-p[1]) \div p[2])
InUnit(p) == RLe(R(0), p) /\ RLe(p, R(1))

\* numpy.clip(x, lo, hi) on one element
clip1(x, lo, hi) == RMin(RMax(x, lo), hi)
\* numpy.clip(x, 0, inf) on one element
clipLow1(x) == RMax(x, R(0))

\* numpy.sqrt on one element whose root is a rational: the root.  The root of
\* any other number is not a value of this model (sqrt1 is not defined there).
\* ISqrtIn is the largest integer in lo..hi whose square is at most x; 46340 is
\* the largest integer whose square is a 32-bit integer.
RECURSIVE ISqrtIn(_, _, _)
ISqrtIn(x, lo, hi) ==
    IF lo = hi THEN lo
    ELSE LET mid == (lo + hi + 1) \div 2
         IN  IF mid * mid <= x THEN ISqrtIn(x, mid, hi) ELSE ISqrtIn(x, lo, mid - 1)
ISqrt(x) == ISqrtIn(x, 0, IF x < 46340 THEN x ELSE 46340)
sqrt1(p) == CHOOSE r \in {Rat(ISqrt(p[1]), ISqrt(p[2]))} : RMul(r, r) = p

(***************************************************************************)
(* numpy arrays: a shape (sequence of axis lengths) and one element per    *)
(* index tuple (0-based entries, as in numpy).                             *)
(***************************************************************************)
None == [kind |-> "None"]

RECURSIVE Indices(_)
Indices(s) ==
    IF s = <<>> THEN {<<>>}
    ELSE {<<i>> \o r : i \in 0..(s[1] - 1), r \in Indices(Tail(s))}

NdArray(s, d) == [kind |-> "ndarray", shape |-> s, data |-> d]
ndim(a) == Len(a.shape)

RECURSIVE SeqProd(_)
SeqProd(s) == IF s = <<>> THEN 1 ELSE s[1] * SeqProd(Tail(s))

\* a[k] : the sub-array at position k of the first axis
Sub(a, k) ==
    NdArray(Tail(a.shape), [ix \in Indices(Tail(a.shape)) |-> a.data[<<k>> \o ix]])

\* numpy.transpose(a, axes): result axis j is a's axis axes[j] (0-based values)
transpose(a, axes) ==
    LET s == [j \in 1..Len(axes) |-> a.shape[axes[j] + 1]]
    IN  NdArray(s, [ix \in Indices(s) |->
            a.data[[k \in 1..Len(axes) |->
                ix[CHOOSE j \in 1..Len(axes) : axes[j] + 1 = k]]]])

\* elementwise f over one array
Map1(a, f(_)) == NdArray(a.shape, [ix \in Indices(a.shape) |-> f(a.data[ix])])

Elems(a) == {a.data[ix] : ix \in Indices(a.shape)}
\* a.min(), a.max()
amin(a) == CHOOSE v \in Elems(a) : \A w \in Elems(a) : RLe(v, w)
amax(a) == CHOOSE v \in Elems(a) : \A w \in Elems(a) : RLe(w, v)

\* numpy.zeros(shape)
zeros(s) == NdArray(s, [ix \in Indices(s) |-> R(0)])

\* numpy.clip(a, 0, 1)
clip01(a) == Map1(a, LAMBDA x : clip1(x, R(0), R(1)))

(***************************************************************************)
(* numpy broadcasting of two shapes: aligned at the last axis, an axis of  *)
(* length 1 stretches.  <<-1>> when the shapes do not broadcast.           *)
(***************************************************************************)
NoShape == <<-1>>
PadShape(s, n) == [j \in 1..n |-> IF j <= n - Len(s) THEN 1 ELSE s[j - (n - Len(s))]]
BroadcastShape(s, t) ==
    LET n == IF Len(s) >= Len(t) THEN Len(s) ELSE Len(t)
        ps == PadShape(s, n)
        pt == PadShape(t, n)
    IN  IF \A j \in 1..n : ps[j] = pt[j] \/ ps[j] = 1 \/ pt[j] = 1
        THEN [j \in 1..n |-> IF ps[j] = 1 THEN pt[j] ELSE ps[j]]
        ELSE NoShape
\* the index into an operand of shape s for index ix of the broadcast result
BroadcastIndex(s, ix) ==
    LET off == Len(ix) - Len(s)
    IN  [j \in 1..Len(s) |-> IF s[j] = 1 THEN 0 ELSE ix[j + off]]

(***************************************************************************)
(* numpy.allclose(dims1, dims2) on two shape tuples (line 199, 203): the   *)
(* tuples become 1-axis arrays, are broadcast against each other, and are  *)
(* compared with |a - b| <= atol + rtol * |b|, atol = 1e-8, rtol = 1e-5    *)
(* (both sides times 1e8 below).                                           *)
(* "ValueError" when the two tuples do not broadcast.                      *)
(***************************************************************************)
isclose1(a, b) == Abs(a - b) * 100000000 <= 1 + 1000 * Abs(b)
allclose(dims1, dims2) ==
    LET bs == BroadcastShape(<<Len(dims1)>>, <<Len(dims2)>>)
    IN  IF bs = NoShape THEN "ValueError"
        ELSE IF \A ix \in Indices(bs) :
                    isclose1(dims1[BroadcastIndex(<<Len(dims1)>>, ix)[1] + 1],
                             dims2[BroadcastIndex(<<Len(dims2)>>, ix)[1] + 1])
             THEN "True" ELSE "False"

(***************************************************************************)
(* Python values of the Colorize fields.                                   *)
(***************************************************************************)
Str(name) == [kind |-> "str", name |-> name]
Float(v) == [kind |-> "float", v |-> v]
\* matplotlib.colors.ListedColormap(colors): N = len(colors)
ListedColormap(colors) == [kind |-> "ListedColormap", colors |-> colors]
\* a matplotlib colormap object of another class
LinearSegmentedColormapObj == [kind |-> "LinearSegmentedColormap"]
isinstanceListedColormap(c) == c.kind = "ListedColormap"
isinstanceStr(c) == c.kind = "str"
\* self.cmap in [...] / self.cmap == '...': only a string equals a string
cmapIn(c, names) == c.kind = "str" /\ c.name \in names

NoExc == [kind |-> "None", at |-> "None"]
Exc(kind, at) == [kind |-> kind, at |-> at]

(***************************************************************************)
(* matplotlib.colors.Normalize(vmin, vmax, clip=True)(value), line 82-83:  *)
(* a copy of value; an unset vmin / vmax is the copy's min / max           *)
(* (autoscale_None, on the Normalize object made by this call);            *)
(* vmin == vmax fills with 0, vmin > vmax raises ValueError, else the copy *)
(* is clipped to [vmin, vmax] and mapped to (x - vmin) / (vmax - vmin).    *)
(***************************************************************************)
NormVmin(vmin, value) == IF vmin = None THEN amin(value) ELSE vmin.v
NormVmax(vmax, value) == IF vmax = None THEN amax(value) ELSE vmax.v
NormalizeRaises(vmin, vmax, value) ==
    RLt(NormVmax(vmax, value), NormVmin(vmin, value))
Normalize(vmin, vmax, value) ==
    LET lo == NormVmin(vmin, value)
        hi == NormVmax(vmax, value)
    IN  IF lo = hi THEN zeros(value.shape)
        ELSE Map1(value, LAMBDA x : RDiv(RSub(clip1(x, lo, hi), lo), RSub(hi, lo)))

(***************************************************************************)
(* matplotlib.colors.hsv_to_rgb on one (h, s, v) triple.                   *)
(***************************************************************************)
hsv_to_rgb1(h, s, v) ==
    LET i == RTrunc(RMul(h, R(6)))
        f == RSub(RMul(h, R(6)), R(i))
        p == RMul(v, RSub(R(1), s))
        q == RMul(v, RSub(R(1), RMul(s, f)))
        t == RMul(v, RSub(R(1), RMul(s, RSub(R(1), f))))
    IN  IF s = R(0) THEN <<v, v, v>>
        ELSE CASE i % 6 = 0 -> <<v, t, p>>
               [] i = 1 -> <<q, v, p>>
               [] i = 2 -> <<p, v, t>>
               [] i = 3 -> <<p, q, v>>
               [] i = 4 -> <<t, p, v>>
               [] i = 5 -> <<v, p, q>>
               [] OTHER -> <<R(0), R(0), R(0)>>

(***************************************************************************)
(* matplotlib Colormap.__call__ on one float x for a map with N entries:   *)
(* xa = x * N; xa < 0 -> under, xa == N -> N - 1, xa > N - 1 -> over, else *)
(* int(xa).  Under and over default to the first and the last entry.       *)
(***************************************************************************)
CmapEntries == 256
CmapIndex(x, N) ==
    LET xa == RMul(x, R(N))
    IN  IF RLt(xa, R(0)) THEN 0
        ELSE IF xa = R(N) THEN N - 1
        ELSE IF RTrunc(xa) > N - 1 THEN N - 1
        ELSE RTrunc(xa)
\* LinearSegmentedColormap.from_list('blend', [[0, 0, 0], clr]) at x: entry i of
\* the lookup table is clr * i / (N - 1), clipped to [0, 1]
blendCmap1(clr, x) ==
    LET i == CmapIndex(x, CmapEntries)
    IN  [k \in 1..3 |-> clip1(RMul(clr[k], Rat(i, CmapEntries - 1)), R(0), R(1))]
\* ListedColormap.__call__ at x
listedCmap1(cm, x) == cm.colors[CmapIndex(x, Len(cm.colors)) + 1]
\* get_cmap(name, 256): the registered maps of the model
RegisteredCmaps == {"gray"}
\* get_cmap('gray', 256)(x): entry i is (i/255, i/255, i/255)
grayCmap1(x) ==
    LET i == CmapIndex(x, CmapEntries)
    IN  [k \in 1..3 |-> Rat(i, CmapEntries - 1)]

(***************************************************************************)
(* arctan2(y, x) / (2 pi), in turns, for the operands of line 108, which   *)
(* are negations of normalized values: a zero operand is -0.0.            *)
(* atanTurns(t) is atan(t) / (2 pi) for t in [0, 1] where that is a        *)
(* rational: at t = 0 and t = 1, the directions of the axes and of the     *)
(* diagonals.  The angle of any other direction is not a value of this     *)
(* model (atanTurns is not defined there).                                 *)
(***************************************************************************)
atanTurns(t) == CASE t = R(0) -> R(0) [] t = R(1) -> Rat(1, 8)
arctan2Turns(y, x) ==
    LET ay == Rat(Abs(y[1]), y[2])
        ax == Rat(Abs(x[1]), x[2])
        a == IF ay = R(0) THEN R(0)
             ELSE IF RLe(ay, ax) THEN atanTurns(RDiv(ay, ax))
             ELSE RSub(Rat(1, 4), atanTurns(RDiv(ax, ay)))
        ynonneg == y[1] > 0
        xnonneg == x[1] > 0
    IN  IF xnonneg THEN (IF ynonneg THEN a ELSE RNeg(a))
        ELSE (IF ynonneg THEN RSub(Rat(1, 2), a) ELSE RSub(a, Rat(1, 2)))
\* a variant of the hue that leaves out the quarter-turn shift
polarThetaUnshifted(c0, c1) ==
    LET a == arctan2Turns(RNeg(c0), RNeg(c1))
    IN  RSub(a, R(RFloor(a)))
\* ((arctan2(-c0, -c1) + pi/2) % (pi*2)) / (2 * pi), line 108
polarTheta1(c0, c1) ==
    LET a == RAdd(arctan2Turns(RNeg(c0), RNeg(c1)), Rat(1, 4))
    IN  RSub(a, R(RFloor(a)))
\* sqrt(c0**2 + c1**2), line 109
polarRho1(c0, c1) == sqrt1(RAdd(RMul(c0, c0), RMul(c1, c1)))

(***************************************************************************)
(* The state: the Colorize object, the caller's three argument objects as  *)
(* they are now, and what the last call of transform left behind.          *)
(***************************************************************************)
VARIABLES
    self,        \* the Colorize object: [cmap, scale, colors, vmin, vmax]
    made,        \* the arguments the Colorize object was constructed with
    img,         \* the caller's image array
    mask,        \* the caller's mask array, or None
    background,  \* the caller's background array, or None
    args,        \* the three arguments as they were when transform was called
    ret,         \* the returned array, or None
    retBase,     \* the object whose storage the returned array uses (0: none)
    exc,         \* the exception transform raised, or NoExc
    trace,       \* the statements of transform that ran, in order
    locals,      \* transform's local names when it ended
    pc           \* "ready": no call yet / result dropped, "done": a call ended

vars == <<self, made, img, mask, background, args, ret, retBase, exc, trace, locals, pc>>

\* Colorize.__init__
ColorizeInit(cmap, scale, colors, vmin, vmax) ==
    [cmap |-> cmap, scale |-> scale, colors |-> colors, vmin |-> vmin, vmax |-> vmax]

(***************************************************************************)
(* The frame of one call of transform.  heap[id] is the object id; ids 1,  *)
(* 2, 3 are the caller's img, mask, background.  base[id] is the object    *)
(* whose storage id uses (its own, or the array it is a view of).  The     *)
(* local names img, mask, background, out hold ids; out = 0 is an unbound  *)
(* name.                                                                   *)
(***************************************************************************)
ImgId == 1
MaskId == 2
BackgroundId == 3
CallerIds == {ImgId, MaskId, BackgroundId}

Frame(slf, i, m, b) ==
    [self |-> slf, heap |-> <<i, m, b>>, base |-> <<1, 2, 3>>,
     img |-> ImgId, mask |-> MaskId, background |-> BackgroundId,
     dims |-> <<>>, out |-> 0, colorized |-> 0, exc |-> NoExc, trace |-> <<>>]

Alloc(fr, a) ==
    [fr EXCEPT !.heap = Append(@, a), !.base = Append(@, Len(fr.heap) + 1)]
AllocView(fr, a, of) ==
    [fr EXCEPT !.heap = Append(@, a), !.base = Append(@, fr.base[of])]
NewId(fr) == Len(fr.heap) + 1
Raise(fr, kind, at) == [fr EXCEPT !.exc = Exc(kind, at)]
Ran(fr, what) == [fr EXCEPT !.trace = Append(@, what)]
\* the next statement runs only when no exception is pending
Then(fr, Stmt(_)) == IF fr.exc = NoExc THEN Stmt(fr) ELSE fr

FourSchemes == {"rgb", "hsv", "polar", "indexed"}

\* a variant of _checkDims that does not compare the number of channels with
\* the number of colours of the indexed scheme
_checkDimsAnyIndexed(slf, dims) ==
    IF cmapIn(slf.cmap, FourSchemes) THEN
        IF cmapIn(slf.cmap, {"rgb", "hsv"}) /\ dims[1] # 3
            THEN Exc("Exception", "_checkDims")
        ELSE IF cmapIn(slf.cmap, {"polar"}) /\ dims[1] # 2
            THEN Exc("Exception", "_checkDims")
        ELSE IF cmapIn(slf.cmap, {"indexed"}) /\ slf.colors = None
            THEN Exc("TypeError", "_checkDims")
        ELSE NoExc
    ELSE IF isinstanceListedColormap(slf.cmap) \/ isinstanceStr(slf.cmap) THEN
        IF Len(dims) \notin {2, 3} THEN Exc("Exception", "_checkDims") ELSE NoExc
    ELSE NoExc

(***************************************************************************)
(* Colorize._checkDims, lines 174-192: the exception it raises, or NoExc.  *)
(***************************************************************************)
_checkDims(slf, dims) ==
    IF cmapIn(slf.cmap, FourSchemes) THEN
        IF cmapIn(slf.cmap, {"rgb", "hsv"}) /\ dims[1] # 3
            THEN Exc("Exception", "_checkDims")
        ELSE IF cmapIn(slf.cmap, {"polar"}) /\ dims[1] # 2
            THEN Exc("Exception", "_checkDims")
        ELSE IF cmapIn(slf.cmap, {"indexed"}) /\ slf.colors = None
            THEN Exc("TypeError", "_checkDims")
        ELSE IF cmapIn(slf.cmap, {"indexed"}) /\ dims[1] # Len(slf.colors.items)
            THEN Exc("Exception", "_checkDims")
        ELSE NoExc
    ELSE IF isinstanceListedColormap(slf.cmap) \/ isinstanceStr(slf.cmap) THEN
        IF Len(dims) \notin {2, 3} THEN Exc("Exception", "_checkDims") ELSE NoExc
    ELSE NoExc

(***************************************************************************)
(* Colorize._checkMixedDims, lines 194-204.                                *)
(***************************************************************************)
MixedDimsResult(r) ==
    IF r = "ValueError" THEN Exc("ValueError", "_checkMixedDims")
    ELSE IF r = "False" THEN Exc("Exception", "_checkMixedDims")
    ELSE NoExc
_checkMixedDims(slf, dims1, dims2) ==
    IF cmapIn(slf.cmap, FourSchemes) THEN MixedDimsResult(allclose(dims1, Tail(dims2)))
    ELSE IF isinstanceListedColormap(slf.cmap) \/ isinstanceStr(slf.cmap)
        THEN MixedDimsResult(allclose(dims1, dims2))
    ELSE NoExc

\* Colorize._prepareMask, lines 206-212: a new array, clipped below at 0
_prepareMask(m) == Map1(m, clipLow1)
\* Colorize._prepareBackground, lines 214-222 (no statement of the class calls it)
_prepareBackground(b) == Normalize(None, None, b)

(***************************************************************************)
(* The statements of Colorize.transform, lines 78-160, each a step from    *)
(* frame to frame.                                                         *)
(***************************************************************************)
\* lines 78-80: img = asarray(img) (the same object, the caller passes an
\* array); dims = img.shape; self._checkDims(dims)
StmtCheckDims(fr) ==
    LET d == fr.heap[fr.img].shape
    IN  [Ran(fr, "checkDims") EXCEPT !.dims = d, !.exc = _checkDims(fr.self, d)]

\* a variant of the normalization that writes into the caller's array
StmtNormalizeInPlace(fr) ==
    LET a == fr.heap[fr.img]
    IN  IF NormalizeRaises(fr.self.vmin, fr.self.vmax, a)
        THEN Raise(Ran(fr, "normalize"), "ValueError", "Normalize")
        ELSE [Ran(fr, "normalize") EXCEPT
                !.heap[fr.img] = Normalize(fr.self.vmin, fr.self.vmax, a)]

\* lines 82-83: norm = Normalize(...); img = norm(img)
StmtNormalize(fr) ==
    LET a == fr.heap[fr.img]
    IN  IF NormalizeRaises(fr.self.vmin, fr.self.vmax, a)
        THEN Raise(Ran(fr, "normalize"), "ValueError", "Normalize")
        ELSE [Alloc(Ran(fr, "normalize"), Normalize(fr.self.vmin, fr.self.vmax, a))
                EXCEPT !.img = NewId(fr)]

\* lines 85-87
StmtMask(fr) ==
    IF fr.heap[fr.mask] = None THEN fr
    ELSE LET m == _prepareMask(fr.heap[fr.mask])
             f1 == [Alloc(Ran(fr, "prepareMask"), m) EXCEPT !.mask = NewId(fr)]
         IN  [Ran(f1, "checkMixedDims") EXCEPT
                 !.exc = _checkMixedDims(fr.self, m.shape, fr.dims)]

\* lines 89-91
StmtBackground(fr) ==
    IF fr.heap[fr.background] = None THEN fr
    ELSE LET b == _prepareMask(fr.heap[fr.background])
             f1 == [Alloc(Ran(fr, "prepareBackground"), b) EXCEPT !.background = NewId(fr)]
         IN  [Ran(f1, "checkMixedDims") EXCEPT
                 !.exc = _checkMixedDims(fr.self, b.shape, fr.dims)]

\* the index into an array with a leading channel axis, from an index of the
\* output (spatial axes, then the RGB axis)
Front(ix) == SubSeq(ix, 1, Len(ix) - 1)
Last(ix) == ix[Len(ix)]

\* a variant of the rgb branch that reverses the axes
ColorizeRgbReversed(fr) ==
    LET a == fr.heap[fr.img]
    IN  IF ndim(a) = 4
            THEN [AllocView(fr, transpose(a, <<3, 2, 1, 0>>), fr.img) EXCEPT !.out = NewId(fr)]
        ELSE IF ndim(a) = 3
            THEN [AllocView(fr, transpose(a, <<2, 1, 0>>), fr.img) EXCEPT !.out = NewId(fr)]
        ELSE fr

\* lines 93-97
ColorizeRgb(fr) ==
    LET a == fr.heap[fr.img]
    IN  IF ndim(a) = 4
            THEN [AllocView(fr, transpose(a, <<1, 2, 3, 0>>), fr.img) EXCEPT !.out = NewId(fr)]
        ELSE IF ndim(a) = 3
            THEN [AllocView(fr, transpose(a, <<1, 2, 0>>), fr.img) EXCEPT !.out = NewId(fr)]
        ELSE fr

\* lines 99-105: hsv_to_rgb of (img[0], img[1], img[2]) at every pixel, slice by
\* slice of the last spatial axis when there are three
ColorizeHsv(fr) ==
    LET a == fr.heap[fr.img]
        s == Tail(a.shape) \o <<3>>
        o == NdArray(s, [ix \in Indices(s) |->
                hsv_to_rgb1(a.data[<<0>> \o Front(ix)], a.data[<<1>> \o Front(ix)],
                            a.data[<<2>> \o Front(ix)])[Last(ix) + 1]])
    IN  IF ndim(a) \in {3, 4} THEN [Alloc(fr, o) EXCEPT !.out = NewId(fr)] ELSE fr

\* lines 107-117
ColorizePolar(fr) ==
    LET a == fr.heap[fr.img]
        s == Tail(a.shape) \o <<3>>
        o == NdArray(s, [ix \in Indices(s) |->
                hsv_to_rgb1(polarTheta1(a.data[<<0>> \o Front(ix)], a.data[<<1>> \o Front(ix)]),
                            R(1),
                            RMul(fr.self.scale,
                                 polarRho1(a.data[<<0>> \o Front(ix)], a.data[<<1>> \o Front(ix)])))
                    [Last(ix) + 1]])
    IN  IF ndim(a) \in {3, 4} THEN [Alloc(fr, o) EXCEPT !.out = NewId(fr)] ELSE fr

\* a variant of the loop body that adds the ramped colours
IndexedBodyAdding(a, clr, ix, o) ==
    NdArray(o.shape, [jx \in Indices(o.shape) |->
        RAdd(o.data[jx],
             clip1(blendCmap1(clr, a.data[<<ix>> \o Front(jx)])[Last(jx) + 1], R(0), R(1)))])

\* lines 124-131, the loop body for colour number ix (0-based) on the array o:
\* maximum(out, clip(cmap(img[ix])[..., 0:3], 0, 1))
IndexedBody(a, clr, ix, o) ==
    NdArray(o.shape, [jx \in Indices(o.shape) |->
        RMax(o.data[jx],
             clip1(blendCmap1(clr, a.data[<<ix>> \o Front(jx)])[Last(jx) + 1], R(0), R(1)))])
RECURSIVE IndexedLoop(_, _, _, _)
IndexedLoop(a, colors, ix, o) ==
    IF ix >= Len(colors) THEN o
    ELSE IndexedLoop(a, colors, ix + 1, IndexedBody(a, colors[ix + 1], ix, o))
\* lines 119-131
ColorizeIndexed(fr) ==
    LET a == fr.heap[fr.img]
        clrs == fr.self.colors.items
    IN  IF ndim(a) \in {3, 4}
            THEN [Alloc(fr, IndexedLoop(a, clrs, 0, zeros(Tail(a.shape) \o <<3>>)))
                    EXCEPT !.out = NewId(fr)]
        ELSE IF Len(clrs) > 0 THEN Raise(fr, "UnboundLocalError", "colorize")
        ELSE fr

\* lines 133-139
ColorizeListed(fr) ==
    LET a == fr.heap[fr.img]
        s == a.shape \o <<3>>
        o == NdArray(s, [ix \in Indices(s) |->
                listedCmap1(fr.self.cmap, a.data[Front(ix)])[Last(ix) + 1]])
    IN  IF ndim(a) \in {2, 3} THEN [Alloc(fr, o) EXCEPT !.out = NewId(fr)] ELSE fr

\* lines 141-147
ColorizeStr(fr) ==
    LET a == fr.heap[fr.img]
        s == a.shape \o <<3>>
        o == NdArray(s, [ix \in Indices(s) |-> grayCmap1(a.data[Front(ix)])[Last(ix) + 1]])
    IN  IF fr.self.cmap.name \notin RegisteredCmaps
            THEN Raise(fr, "ValueError", "get_cmap")
        ELSE IF ndim(a) \in {2, 3} THEN [Alloc(fr, o) EXCEPT !.out = NewId(fr)]
        ELSE fr

\* lines 93-150: the dispatch on self.cmap
StmtColorize(fr) ==
    LET c == fr.self.cmap
        f0 == Ran(fr, "colorize")
        f1 == IF cmapIn(c, {"rgb"}) THEN ColorizeRgb(f0)
              ELSE IF cmapIn(c, {"hsv"}) THEN ColorizeHsv(f0)
              ELSE IF cmapIn(c, {"polar"}) THEN ColorizePolar(f0)
              ELSE IF cmapIn(c, {"indexed"}) THEN ColorizeIndexed(f0)
              ELSE IF isinstanceListedColormap(c) THEN ColorizeListed(f0)
              ELSE IF isinstanceStr(c) THEN ColorizeStr(f0)
              ELSE Raise(fr, "Exception", "not understood")
    IN  [f1 EXCEPT !.colorized = f1.out]

\* line 152: out = clip(out * self.scale, 0, 1)
StmtScale(fr) ==
    IF fr.out = 0 THEN Raise(fr, "UnboundLocalError", "scale")
    ELSE [Alloc(Ran(fr, "scale"),
                Map1(fr.heap[fr.out], LAMBDA x : clip1(RMul(x, fr.self.scale), R(0), R(1))))
            EXCEPT !.out = NewId(fr)]

(***************************************************************************)
(* Colorize.blend, lines 162-172: for i in 0, 1, 2 the slice of img at     *)
(* position i of axis 3 (a 3-axis mask) or of axis 2 (any other mask) is   *)
(* overwritten, in place, by op(slice, mask), with numpy's broadcasting.   *)
(* The result is [exc, arr]: the exception raised and img's new contents;  *)
(* the slices written before an exception stay written.                    *)
(***************************************************************************)
multiply(x, y) == RMul(x, y)
add(x, y) == RAdd(x, y)
ApplyOp(op, x, y) == IF op = "multiply" THEN multiply(x, y) ELSE add(x, y)
\* the shape and the indices of img[:, :, i] / img[:, :, :, i]
DropAxis(s, ax) == SubSeq(s, 1, ax - 1) \o SubSeq(s, ax + 1, Len(s))
BlendAxis(m) == IF ndim(m) = 3 THEN 4 ELSE 3
\* img[..., i] = value: a value of shape vs is stored into a slice of shape ss
\* when vs, without leading axes of length 1, broadcasts to ss
Assignable(vs, ss) ==
    /\ vs # NoShape
    /\ Len(vs) >= Len(ss)
    /\ \A j \in 1..(Len(vs) - Len(ss)) : vs[j] = 1
    /\ SubSeq(vs, Len(vs) - Len(ss) + 1, Len(vs)) = ss
\* the body of the loop for one i: img[:, :, i] = op(img[:, :, i], mask)
BlendStep(im, m, op, ax, i) ==
    LET ss == DropAxis(im.shape, ax)
        vs == BroadcastShape(ss, m.shape)
        lead == [j \in 1..(Len(vs) - Len(ss)) |-> 0]
    IN  IF ndim(im) < ax \/ i >= im.shape[ax]
            THEN [exc |-> Exc("IndexError", "blend"), arr |-> im]
        ELSE IF ~Assignable(vs, ss) THEN [exc |-> Exc("ValueError", "blend"), arr |-> im]
        ELSE [exc |-> NoExc,
              arr |-> NdArray(im.shape, [ix \in Indices(im.shape) |->
                        IF ix[ax] = i
                        THEN ApplyOp(op, im.data[ix],
                                     m.data[BroadcastIndex(m.shape, lead \o DropAxis(ix, ax))])
                        ELSE im.data[ix]])]
\* for i in range(0, 3), from i on
RECURSIVE BlendLoop(_, _, _, _, _)
BlendLoop(im, m, op, ax, i) ==
    IF i >= 3 THEN [exc |-> NoExc, arr |-> im]
    ELSE LET r == BlendStep(im, m, op, ax, i)
         IN  IF r.exc # NoExc THEN r ELSE BlendLoop(r.arr, m, op, ax, i + 1)
blend(im, m, op) == BlendLoop(im, m, op, BlendAxis(m), 0)

\* lines 154-155: out = self.blend(out, mask, multiply), writing into out's storage
StmtBlendMask(fr) ==
    IF fr.heap[fr.mask] = None THEN fr
    ELSE LET r == blend(fr.heap[fr.out], fr.heap[fr.mask], "multiply")
         IN  [Ran(fr, "blend multiply") EXCEPT !.heap[fr.out] = r.arr, !.exc = r.exc]

\* lines 157-158: out = self.blend(out, background, add)
StmtBlendBackground(fr) ==
    IF fr.heap[fr.background] = None THEN fr
    ELSE LET r == blend(fr.heap[fr.out], fr.heap[fr.background], "add")
         IN  [Ran(fr, "blend add") EXCEPT !.heap[fr.out] = r.arr, !.exc = r.exc]

\* a variant of the return that does not clip
StmtReturnUnclipped(fr) ==
    [Alloc(Ran(fr, "clip"), fr.heap[fr.out]) EXCEPT !.out = NewId(fr)]

\* line 160: return clip(out, 0, 1)
StmtReturn(fr) ==
    [Alloc(Ran(fr, "clip"), clip01(fr.heap[fr.out])) EXCEPT !.out = NewId(fr)]

\* lines 78-91: the frame when the colorization is about to start, or when an
\* exception ended the call before
BeforeColorize(slf, i, m, b) ==
    Then(Then(Then(
        StmtCheckDims(Frame(slf, i, m, b)),
        StmtNormalize), StmtMask), StmtBackground)

\* a variant of transform that adds the background before it multiplies by
\* the mask
transformBackgroundFirst(slf, i, m, b) ==
    Then(Then(Then(Then(Then(
        BeforeColorize(slf, i, m, b),
        StmtColorize), StmtScale),
        StmtBlendBackground), StmtBlendMask), StmtReturn)
\* a variant of transform that checks the channel axis after the
\* normalization
transformNormalizeFirst(slf, i, m, b) ==
    Then(Then(Then(Then(Then(Then(Then(Then(
        StmtNormalize(Frame(slf, i, m, b)),
        StmtCheckDims), StmtMask), StmtBackground), StmtColorize), StmtScale),
        StmtBlendMask), StmtBlendBackground), StmtReturn)

\* Colorize.transform, lines 78-160: the frame when the call ends
transform(slf, i, m, b) ==
    Then(Then(Then(Then(Then(
        BeforeColorize(slf, i, m, b),
        StmtColorize), StmtScale),
        StmtBlendMask), StmtBlendBackground), StmtReturn)

\* a local name's value when the call ended (None when the name was not rebound)
LocalOf(fr, id) == IF id \in CallerIds \/ id = 0 THEN None ELSE fr.heap[id]

(***************************************************************************)
(* Actions.                                                                *)
(***************************************************************************)
\* one call self.transform(i, m, b) by the caller, from start to return or raise
Transform(i, m, b) ==
    /\ pc = "ready"
    /\ \E fr \in {transform(self, i, m, b)} :
           /\ self' = fr.self
           /\ img' = fr.heap[ImgId]
           /\ mask' = fr.heap[MaskId]
           /\ background' = fr.heap[BackgroundId]
           /\ args' = [img |-> i, mask |-> m, background |-> b]
           /\ exc' = fr.exc
           /\ ret' = IF fr.exc = NoExc THEN fr.heap[fr.out] ELSE None
           /\ retBase' = IF fr.exc = NoExc THEN fr.base[fr.out] ELSE 0
           /\ trace' = fr.trace
           /\ locals' = [img |-> LocalOf(fr, fr.img), mask |-> LocalOf(fr, fr.mask),
                         background |-> LocalOf(fr, fr.background),
                         colorized |-> LocalOf(fr, fr.colorized)]
    /\ pc' = "done"
    /\ UNCHANGED made

\* one call Colorize.blend(i, m, op) by the caller (a static method): i is
\* overwritten in place and is the object returned
Blend(i, m, op) ==
    /\ pc = "ready"
    /\ \E r \in {blend(i, m, op)} :
           /\ img' = r.arr
           /\ exc' = r.exc
           /\ ret' = IF r.exc = NoExc THEN r.arr ELSE None
           /\ retBase' = IF r.exc = NoExc THEN ImgId ELSE 0
    /\ mask' = m /\ background' = None
    /\ args' = [img |-> i, mask |-> m, background |-> None]
    /\ trace' = <<"blend " \o op>>
    /\ locals' = [img |-> None, mask |-> None, background |-> None, colorized |-> None]
    /\ pc' = "blended"
    /\ UNCHANGED <<self, made>>

\* the caller is done with the call's arrays; the Colorize object stays
Discard ==
    /\ pc \in {"done", "blended"}
    /\ pc' = "ready"
    /\ img' = None /\ mask' = None /\ background' = None
    /\ args' = [img |-> None, mask |-> None, background |-> None]
    /\ ret' = None /\ retBase' = 0 /\ exc' = NoExc /\ trace' = <<>>
    /\ locals' = [img |-> None, mask |-> None, background |-> None, colorized |-> None]
    /\ UNCHANGED <<self, made>>

(***************************************************************************)
(* The Colorize objects and the calls of the model.                        *)
(***************************************************************************)
PyList(items) == [kind |-> "list", items |-> items]

IndexedColors == PyList(<< <<R(1), R(0), R(0)>>, <<Rat(1, 2), R(1), Rat(1, 2)>> >>)
TwoColorMap == ListedColormap(<< <<R(0), R(0), R(1)>>, <<R(1), R(1), R(0)>> >>)

Cmaps == {Str("rgb"), Str("hsv"), Str("polar"), Str("indexed"), TwoColorMap,
          Str("gray"), Str("nosuchmap"), LinearSegmentedColormapObj}
Scales == {Rat(1, 2), R(1), R(2)}
Limits == {<<None, None>>, <<Float(R(0)), Float(R(1))>>, <<Float(R(-1)), Float(R(1))>>}

Objects(scales, limits) ==
    {ColorizeInit(c, sc, IF c = Str("indexed") THEN IndexedColors ELSE None, l[1], l[2]) :
        c \in Cmaps, sc \in scales, l \in limits}

\* longest axis of the arrays of the calls
MaxLen == 2

ImgValues == {R(-1), R(0), Rat(1, 2), R(1)}
AuxValues == {R(-1), Rat(1, 2), R(2)}

\* the array of shape s whose elements at position k of the first axis and 0 of
\* every other axis are a[k], and whose other elements are f
IsFirst(ix) == \A j \in 2..Len(ix) : ix[j] = 0
ArrayOf(s, a, f) ==
    NdArray(s, [ix \in Indices(s) |-> IF IsFirst(ix) THEN a[ix[1] + 1] ELSE f])
ConstArray(s, v) == NdArray(s, [ix \in Indices(s) |-> v])
\* the array of shape s whose elements run through vals (a sequence) in index order
RECURSIVE FlatIndex(_, _)
FlatIndex(s, ix) ==
    IF s = <<>> THEN 0 ELSE ix[1] * SeqProd(Tail(s)) + FlatIndex(Tail(s), Tail(ix))
RampArray(s, vals) ==
    NdArray(s, [ix \in Indices(s) |-> vals[(FlatIndex(s, ix) % Len(vals)) + 1]])

\* calls that vary the values: one-pixel images with 2 or 3 channels, two-pixel
\* images with 3 channels and values in [0, 1], a two-pixel single-channel
\* image, and two-pixel images with 2 channels whose vectors are (0, v) and
\* (w, 0); mask and background of the image's shape with or without its first axis
UnitValues == {R(0), Rat(1, 2), R(1)}
ValueImgs ==
    {ArrayOf(s, a, R(0)) : s \in {<<2, 1, 1>>}, a \in [1..2 -> ImgValues]}
    \cup {ArrayOf(s, a, R(0)) : s \in {<<3, 1, 1>>}, a \in [1..3 -> ImgValues]}
    \cup {RampArray(<<3, 1, 2>>, <<u, v, w>>) : u \in UnitValues, v \in UnitValues, w \in UnitValues}
    \cup {RampArray(<<1, 2>>, <<v, w>>) : v \in ImgValues, w \in ImgValues}
    \cup {RampArray(<<2, 1, 2>>, <<R(0), w, v, R(0)>>) : v \in ImgValues, w \in ImgValues}
ValueAux(s) == {None} \cup {ConstArray(s, v) : v \in AuxValues}
ValueCalls ==
    {<<i, m, b>> : i \in ValueImgs, m \in {None}, b \in {None}}
    \cup UNION {{<<i, m, b>> : m \in ValueAux(Tail(i.shape)), b \in ValueAux(Tail(i.shape))} :
                i \in ValueImgs}
    \cup UNION {{<<i, m, b>> : m \in ValueAux(i.shape), b \in ValueAux(i.shape)} :
                i \in ValueImgs}

\* calls that vary the shapes: every image shape of 2 to 4 axes with 2 or 3
\* channels, alone, with a mask of any shape of 1 to 3 axes, with such a
\* background, or with a mask of the image's shape without its first axis and
\* such a background; and an image of every such shape that has values in its
\* first channel only, alone or with a mask and a background that fit
Channels == {2, 3}
RECURSIVE ShapesOfLen(_)
ShapesOfLen(n) ==
    IF n = 0 THEN {<<>>} ELSE {<<k>> \o s : k \in 1..MaxLen, s \in ShapesOfLen(n - 1)}
AuxShapes == ShapesOfLen(1) \cup ShapesOfLen(2) \cup ShapesOfLen(3)
ImgShapes == {<<c>> \o s : c \in Channels, s \in AuxShapes}
ShapeImg(s) == RampArray(s, <<R(0), R(1), Rat(1, 2), R(-1)>>)
ShapeAux(s) == RampArray(s, <<Rat(1, 2), R(2), R(-1)>>)
\* an image whose channel 0 runs through 0, 1, 1/2 and whose other channels are 0
AxisImg(s) ==
    NdArray(s, [ix \in Indices(s) |->
        IF ix[1] = 0 THEN <<R(0), R(1), Rat(1, 2)>>[(FlatIndex(s, ix) % 3) + 1] ELSE R(0)])
ShapeCalls ==
    {<<ShapeImg(s), None, None>> : s \in ImgShapes}
    \cup {<<ShapeImg(s), ShapeAux(t), None>> : s \in ImgShapes, t \in AuxShapes}
    \cup {<<ShapeImg(s), None, ShapeAux(t)>> : s \in ImgShapes, t \in AuxShapes}
    \cup {<<ShapeImg(s), ShapeAux(Tail(s)), ShapeAux(t)>> : s \in ImgShapes, t \in AuxShapes}
    \cup {<<AxisImg(s), None, None>> : s \in ImgShapes}
    \cup {<<AxisImg(s), ShapeAux(Tail(s)), ShapeAux(Tail(s))>> : s \in ImgShapes}

\* direct calls of blend: images with a last axis of 3 or, for one, of 2, masks
\* that fit, that broadcast and that do not
BlendImgs ==
    {RampArray(s, <<R(1), Rat(1, 2), R(2)>>) : s \in {<<1, 2, 3>>, <<1, 1, 2>>, <<1, 1, 2, 3>>}}
BlendMasks == {RampArray(s, <<R(2), Rat(1, 2)>>) : s \in {<<1>>, <<2>>, <<1, 2>>, <<1, 1, 2>>}}
BlendCalls == {<<i, m, op>> : i \in BlendImgs, m \in BlendMasks, op \in {"multiply", "add"}}

\* the polar scheme is modelled where numpy's angle and magnitude are rationals:
\* in a call that reaches the polar branch (lines 107-117) every pixel's
\* vector, after the normalization, lies on an axis.  A call that ends before
\* (lines 80, 83, 87, 91) is modelled whatever its image.
PolarOnAxes(slf, i, m, b) ==
    cmapIn(slf.cmap, {"polar"}) =>
        \A fr \in {BeforeColorize(slf, i, m, b)} :
            (fr.exc = NoExc /\ ndim(fr.heap[fr.img]) \in {3, 4}) =>
                \A px \in Indices(Tail(fr.heap[fr.img].shape)) :
                    \/ fr.heap[fr.img].data[<<0>> \o px] = R(0)
                    \/ fr.heap[fr.img].data[<<1>> \o px] = R(0)

Ready(objects) ==
    /\ self \in objects
    /\ made = self
    /\ pc = "ready"
    /\ img = None /\ mask = None /\ background = None
    /\ args = [img |-> None, mask |-> None, background |-> None]
    /\ ret = None /\ retBase = 0 /\ exc = NoExc /\ trace = <<>>
    /\ locals = [img |-> None, mask |-> None, background |-> None, colorized |-> None]

\* the values: every object, the calls that vary the values
Init == Ready(Objects(Scales, Limits))
Call(calls) ==
    /\ pc = "ready"
    /\ \E c \in calls : PolarOnAxes(self, c[1], c[2], c[3]) /\ Transform(c[1], c[2], c[3])
CallBlend ==
    /\ pc = "ready"
    /\ \E c \in BlendCalls : Blend(c[1], c[2], c[3])
Next ==
    \/ Call(ValueCalls)
    \/ CallBlend
    \/ Discard
Spec == Init /\ [][Next]_vars

\* the shapes: every scheme, the calls that vary the shapes
InitShapes == Ready(Objects({Rat(1, 2), R(2)}, {<<None, None>>, <<Float(R(0)), Float(R(1))>>}))
NextShapes ==
    \/ Call(ShapeCalls)
    \/ CallBlend
    \/ Discard
SpecShapes == InitShapes /\ [][NextShapes]_vars

(***************************************************************************)
(* Properties.                                                             *)
(***************************************************************************)
Done == pc = "done"
Returned == pc = "done" /\ exc = NoExc
MultiChannel == cmapIn(self.cmap, FourSchemes)
ColormapScheme ==
    ~MultiChannel /\ (isinstanceListedColormap(self.cmap) \/ isinstanceStr(self.cmap))
\* the image's spatial shape: without the channel axis for the four schemes
SpatialShape == IF MultiChannel THEN Tail(args.img.shape) ELSE args.img.shape
NoAux == args.mask = None /\ args.background = None

\* C1: whenever transform returns for an image of shape (c, x, y) / (c, x, y, z)
\* (rgb, hsv, polar, indexed) or (x, y) / (x, y, z) (colormap), the returned array
\* has the image's spatial shape plus one last axis of length 3, and every
\* returned value lies in [0, 1].
C1_ClaimedShape ==
    \/ MultiChannel /\ ndim(args.img) \in {3, 4}
    \/ ColormapScheme /\ ndim(args.img) \in {2, 3}
C1_ShapeAndRange ==
    (Returned /\ C1_ClaimedShape) =>
        /\ ret.shape = SpatialShape \o <<3>>
        /\ \A ix \in Indices(ret.shape) : InUnit(ret.data[ix])
\* a 4-axis image with a mask and a background, returned, with a value that the
\* last clip brought down to 1
C1_Witness ==
    /\ Returned /\ C1_ClaimedShape
    /\ ndim(args.img) = 4 /\ SpatialShape = <<1, 2, 2>>
    /\ args.mask # None /\ args.background # None
    /\ \E ix \in Indices(ret.shape) :
            /\ ret.data[ix] = R(1)
            /\ RLt(R(1), locals.background.data[Front(ix)])

\* C2: transform raises for every mask or background whose shape is not the
\* image's spatial shape, also when the number of axes differs.
C2_MismatchRaises ==
    (/\ Done /\ (MultiChannel \/ ColormapScheme)
     /\ \/ (args.mask # None /\ args.mask.shape # SpatialShape)
        \/ (args.background # None /\ args.background.shape # SpatialShape))
    => exc # NoExc

\* C3: with rgb, hsv, polar or indexed, transform fails in _checkDims, before
\* anything else, exactly when the first axis of the image is not 3 (rgb, hsv),
\* 2 (polar), len(colors) (indexed); when it is, _checkDims raises nothing.
RequiredChannels ==
    IF cmapIn(self.cmap, {"rgb", "hsv"}) THEN 3
    ELSE IF cmapIn(self.cmap, {"polar"}) THEN 2
    ELSE Len(self.colors.items)
C3_ChannelCardinality ==
    (Done /\ MultiChannel) =>
        IF args.img.shape[1] # RequiredChannels
        THEN exc = Exc("Exception", "_checkDims") /\ ret = None /\ trace = <<"checkDims">>
        ELSE exc.at # "_checkDims"
\* indexed with 2 colours and a 3-channel image: raised
C3_Witness ==
    /\ Done /\ self.cmap = Str("indexed") /\ Len(self.colors.items) = 2
    /\ args.img.shape[1] = 3
    /\ exc = Exc("Exception", "_checkDims")

\* C4: transform applies its steps in the order colorize, scale and clip,
\* multiply by the mask (if given), add the background (if given), clip: every
\* returned value is clip(clip(colour * scale) * mask + background), with the
\* mask and the background as prepared by transform.
C4_Steps ==
    <<"colorize", "scale">>
    \o (IF args.mask # None THEN <<"blend multiply">> ELSE <<>>)
    \o (IF args.background # None THEN <<"blend add">> ELSE <<>>)
    \o <<"clip">>
C4_Scaled(ix) == clip1(RMul(locals.colorized.data[ix], self.scale), R(0), R(1))
C4_Masked(ix) ==
    IF args.mask # None THEN RMul(C4_Scaled(ix), locals.mask.data[Front(ix)])
    ELSE C4_Scaled(ix)
C4_Blended(ix) ==
    IF args.background # None THEN RAdd(C4_Masked(ix), locals.background.data[Front(ix)])
    ELSE C4_Masked(ix)
C4_AuxFits ==
    /\ args.mask # None => args.mask.shape = SpatialShape
    /\ args.background # None => args.background.shape = SpatialShape
C4_BlendOrder ==
    (Returned /\ C4_AuxFits) =>
        /\ Len(trace) >= Len(C4_Steps)
        /\ SubSeq(trace, Len(trace) - Len(C4_Steps) + 1, Len(trace)) = C4_Steps
        /\ ret.shape = locals.colorized.shape
        /\ \A ix \in Indices(ret.shape) : ret.data[ix] = clip1(C4_Blended(ix), R(0), R(1))
\* a returned value with colour, mask and background nonzero, which adding the
\* background before multiplying by the mask would have made different
C4_Witness ==
    /\ Returned /\ C4_AuxFits /\ args.mask # None /\ args.background # None
    /\ \E ix \in Indices(ret.shape) :
            /\ locals.colorized.data[ix] # R(0)
            /\ locals.mask.data[Front(ix)] # R(0)
            /\ locals.background.data[Front(ix)] # R(0)
            /\ ret.data[ix] #
                    clip1(RMul(RAdd(C4_Scaled(ix), locals.background.data[Front(ix)]),
                               locals.mask.data[Front(ix)]), R(0), R(1))

\* C5: before blending, the mask's values are clipped to be non-negative and
\* the background's values are normalized to [0, 1] (minimum to 0, maximum to
\* 1), so that every background value added lies in [0, 1].
C5_AuxPrepared ==
    Returned =>
        /\ locals.mask # None =>
                \A ix \in Indices(locals.mask.shape) :
                    locals.mask.data[ix] = RMax(args.mask.data[ix], R(0))
        /\ locals.background # None =>
                /\ \A ix \in Indices(locals.background.shape) :
                        InUnit(locals.background.data[ix])
                /\ locals.background = _prepareBackground(args.background)

\* C6: every error of transform (channel cardinality, number of axes, mask or
\* background shape, unrecognized scheme) is raised before any computation on
\* the data: no normalization, no mask or background preparation, no
\* colorization has run.
C6_ComputeSteps ==
    {"normalize", "prepareMask", "prepareBackground", "colorize", "scale",
     "blend multiply", "blend add", "clip"}
C6_ErrorsBeforeComputation ==
    (Done /\ exc.at \in {"_checkDims", "_checkMixedDims", "not understood"}) =>
        \A k \in 1..Len(trace) : trace[k] \notin C6_ComputeSteps
\* C6, amended: an error of _checkDims is raised before any computation; an
\* error of _checkMixedDims or of the unrecognized scheme is raised after the
\* image was normalized (and, for _checkMixedDims, right after the array it
\* checks was prepared), and before any colorization, scaling or blending.
C6_ErrorsBeforeColorization ==
    /\ (Done /\ exc.at = "_checkDims") => trace = <<"checkDims">>
    /\ (Done /\ exc.at \in {"_checkMixedDims", "not understood"}) =>
            /\ Len(trace) >= 2 /\ trace[1] = "checkDims" /\ trace[2] = "normalize"
            /\ \A k \in 1..Len(trace) :
                    trace[k] \notin {"colorize", "scale", "blend multiply", "blend add", "clip"}
    /\ (Done /\ exc.at = "_checkMixedDims") =>
            /\ Len(trace) >= 4
            /\ trace[Len(trace)] = "checkMixedDims"
            /\ trace[Len(trace) - 1] \in {"prepareMask", "prepareBackground"}
\* a background of the wrong shape, found after the image was normalized and
\* the mask prepared and checked
C6_Witness ==
    /\ Done /\ exc = Exc("Exception", "_checkMixedDims")
    /\ trace = <<"checkDims", "normalize", "prepareMask", "checkMixedDims",
                 "prepareBackground", "checkMixedDims">>

\* C7: a call of transform, returning or raising, leaves the Colorize object
\* and the caller's img, mask and background as they were, and the returned
\* array uses storage of its own; after any calls the object still has the
\* settings it was constructed with (unset vmin / vmax stay unset).
C7_NothingChanged ==
    /\ self = made
    /\ Done =>
            /\ img = args.img /\ mask = args.mask /\ background = args.background
            /\ exc = NoExc => retBase \notin CallerIds /\ retBase # 0
\* a returned call with unset limits on an image that auto-scaling rescaled,
\* with a mask and a background that the preparation clipped
C7_Witness ==
    /\ Returned /\ made.vmin = None /\ made.vmax = None
    /\ args.mask # None /\ args.background # None
    /\ locals.img.data # args.img.data
    /\ locals.mask.data # args.mask.data
    /\ locals.background.data # args.background.data

\* C8: rgb, scale 1, unset limits, no mask, no background, a 3 x X x Y image
\* with values in [0, 1]: out[x, y, c] = img[c, x, y].
C8_Case ==
    /\ Returned /\ self.cmap = Str("rgb") /\ self.scale = R(1)
    /\ self.vmin = None /\ self.vmax = None /\ NoAux
    /\ ndim(args.img) = 3
    /\ \A v \in Elems(args.img) : InUnit(v)
C8_Transposed ==
    /\ ret.shape = <<args.img.shape[2], args.img.shape[3], 3>>
    /\ \A ix \in Indices(args.img.shape) :
            ret.data[<<ix[2], ix[3], ix[1]>>] = args.img.data[ix]
C8_RgbIdentity == C8_Case => C8_Transposed
\* C8, amended: ... a 3 x X x Y image with values in [0, 1] whose minimum is 0
\* and whose maximum is 1: out[x, y, c] = img[c, x, y].
C8_RgbIdentitySpanning ==
    (C8_Case /\ amin(args.img) = R(0) /\ amax(args.img) = R(1)) => C8_Transposed
C8_Witness ==
    /\ C8_Case /\ amin(args.img) = R(0) /\ amax(args.img) = R(1)
    /\ args.img.shape = <<3, 1, 2>>
    /\ Rat(1, 2) \in Elems(args.img)

\* C9: polar: a pixel whose input vector has c0 = 0, c1 negative and magnitude
\* at least 1/scale is pure red (1, 0, 0).
C9_Case == Returned /\ self.cmap = Str("polar") /\ NoAux
C9_Red(px) ==
    /\ ret.data[px \o <<0>>] = R(1)
    /\ ret.data[px \o <<1>>] = R(0)
    /\ ret.data[px \o <<2>>] = R(0)
C9_RawReference(a, px) ==
    /\ a.data[<<0>> \o px] = R(0)
    /\ RLt(a.data[<<1>> \o px], R(0))
    /\ RLe(R(1), RMul(self.scale, RNeg(a.data[<<1>> \o px])))
C9_NormalizedReference(a, px) ==
    /\ a.data[<<1>> \o px] = R(0)
    /\ RLt(R(0), a.data[<<0>> \o px])
    /\ RLe(R(1), RMul(self.scale, a.data[<<0>> \o px]))
C9_PolarReferenceRed ==
    C9_Case => \A px \in Indices(SpatialShape) : C9_RawReference(args.img, px) => C9_Red(px)
\* C9, amended: polar: a pixel whose vector after the normalization step has
\* c1 = 0, c0 positive and magnitude at least 1/scale is pure red (1, 0, 0).
C9_PolarNormalizedReferenceRed ==
    C9_Case =>
        \A px \in Indices(SpatialShape) : C9_NormalizedReference(locals.img, px) => C9_Red(px)
\* an input vector (0, negative) that normalization maps to (positive, 0)
C9_Witness ==
    /\ C9_Case
    /\ \E px \in Indices(SpatialShape) :
            /\ C9_RawReference(args.img, px)
            /\ C9_NormalizedReference(locals.img, px)
            /\ C9_Red(px)

\* C10: indexed: the colorized output at every pixel is the component-wise
\* maximum over the channels i of the ramp black -> C_i at channel i's
\* normalized value; where exactly one channel is nonzero it is that channel's
\* ramped colour alone.
C10_Case == Done /\ self.cmap = Str("indexed") /\ locals.colorized # None
C10_Ramp(i, px) == blendCmap1(self.colors.items[i + 1], locals.img.data[<<i>> \o px])
C10_Channels == 0..(Len(self.colors.items) - 1)
C10_IndexedMaximum ==
    C10_Case =>
        /\ locals.colorized.shape = SpatialShape \o <<3>>
        /\ \A jx \in Indices(locals.colorized.shape) :
                /\ \E i \in C10_Channels :
                        locals.colorized.data[jx] = C10_Ramp(i, Front(jx))[Last(jx) + 1]
                /\ \A i \in C10_Channels :
                        RLe(C10_Ramp(i, Front(jx))[Last(jx) + 1], locals.colorized.data[jx])
                /\ \A i \in C10_Channels :
                        (\A j \in C10_Channels \ {i} :
                            locals.img.data[<<j>> \o Front(jx)] = R(0))
                        => locals.colorized.data[jx] = C10_Ramp(i, Front(jx))[Last(jx) + 1]
\* a pixel with both channels nonzero whose red is the larger of two different
\* nonzero ramp values
C10_Witness ==
    /\ C10_Case
    /\ \E px \in Indices(SpatialShape) :
            /\ \A i \in C10_Channels : locals.img.data[<<i>> \o px] # R(0)
            /\ C10_Ramp(0, px)[1] # C10_Ramp(1, px)[1]
            /\ C10_Ramp(0, px)[1] # R(0) /\ C10_Ramp(1, px)[1] # R(0)

====
